---- MODULE Spec2Model ----
(***************************************************************************)
(* OpenTiny (generate.py): a static generator that turns a JSON registry   *)
(* of short links into a tree of redirect pages plus a sitemap.            *)
(*                                                                         *)
(* Text is modelled as a sequence of one-character strings, so that        *)
(* str.replace, string concatenation and the sitemap text are computed     *)
(* character by character.  A path inside the output directory is a        *)
(* sequence of names; the output directory is a function from paths to     *)
(* nodes.  One run of main() is a sequence of steps guarded by pc.         *)
(***************************************************************************)
EXTENDS Integers, Sequences, FiniteSets, TLC

\* ------------------------------------------------------------------------
\* Bounds of the model
\* ------------------------------------------------------------------------
MaxEntries == 2
MaxRuns == 2
MaxChunks == 2

\* ------------------------------------------------------------------------
\* Literals of the program
\* ------------------------------------------------------------------------
TokTitle == <<"{","{"," ","t","i","t","l","e"," ","}","}">>
TokHeading == <<"{","{"," ","h","e","a","d","i","n","g"," ","}","}">>
TokUrl == <<"{","{"," ","u","r","l"," ","}","}">>
TokDescription == <<"{","{"," ","d","e","s","c","r","i","p","t","i","o","n"," ","}","}">>
TokImage == <<"{","{"," ","i","m","a","g","e"," ","}","}">>
\* the tokens in the order of the chained .replace calls
Tokens == <<TokTitle, TokHeading, TokUrl, TokDescription, TokImage>>

XmlDecl == <<"<","?","x","m","l"," ","v","e","r","s","i","o","n","=","\"","1",".","0","\""," ","e","n","c","o","d","i","n","g","=","\"","U","T","F","-","8","\"","?",">","\n">>
UrlsetOpen == <<"<","u","r","l","s","e","t"," ","x","m","l","n","s","=","\"","h","t","t","p",":","/","/","w","w","w",".","s","i","t","e","m","a","p","s",".","o","r","g","/","s","c","h","e","m","a","s","/","s","i","t","e","m","a","p","/","0",".","9","\"",">","\n">>
UrlOpen == <<" "," ","<","u","r","l",">","\n","\t","\t","<","l","o","c",">">>
UrlClose == <<"<","/","l","o","c",">","\n","\t","<","/","u","r","l",">","\n">>
UrlsetClose == <<"<","/","u","r","l","s","e","t",">">>

IndexKey == <<"i","n","d","e","x">>
IndexHtml == <<"i","n","d","e","x",".","h","t","m","l">>
SitemapXml == <<"s","i","t","e","m","a","p",".","x","m","l">>
\* default of --error-page; shutil.copy keeps the file name
ErrorPageName == <<"4","0","4",".","h","t","m","l">>

\* ------------------------------------------------------------------------
\* Strings
\* ------------------------------------------------------------------------
IsPrefix(p, s) == Len(p) <= Len(s) /\ SubSeq(s, 1, Len(p)) = p

\* str.replace(old, new) for a non-empty old: a left-to-right scan that
\* replaces each non-overlapping occurrence and never rescans what it wrote
RECURSIVE Replace(_, _, _)
Replace(s, old, new) ==
  IF s = <<>> THEN <<>>
  ELSE IF IsPrefix(old, s)
       THEN new \o Replace(SubSeq(s, Len(old) + 1, Len(s)), old, new)
       ELSE <<Head(s)>> \o Replace(Tail(s), old, new)

\* dict.get(field, default)
Get(value, field, default) == IF field \in DOMAIN value THEN value[field] ELSE default

\* the argument of the k-th .replace call for entry (key, value)
FieldValue(k, key, value) ==
  CASE k = 1 -> Get(value, "title", key)
    [] k = 2 -> Get(value, "title", key)
    [] k = 3 -> value["url"]
    [] k = 4 -> Get(value, "description", key)
    [] k = 5 -> Get(value, "image", <<>>)

\* variant: the chain applied in the opposite order, image first
RenderPassReversed(t, k, key, value) == Replace(t, Tokens[6 - k], FieldValue(6 - k, key, value))

\* one .replace call of the chain
RenderPass(t, k, key, value) == Replace(t, Tokens[k], FieldValue(k, key, value))

\* variant: the chain without its last call
RenderSkipImage(template, key, value) ==
  RenderPass(RenderPass(RenderPass(RenderPass(template, 1, key, value),
                                   2, key, value), 3, key, value), 4, key, value)

\* index_content: the chain of five .replace calls
Render(template, key, value) ==
  RenderPass(RenderPass(RenderPass(RenderPass(RenderPass(template, 1, key, value),
                                              2, key, value), 3, key, value), 4, key, value), 5, key, value)

\* ------------------------------------------------------------------------
\* Sitemap text
\* ------------------------------------------------------------------------
\* variant: the root page left out of the sitemap
PagesNoRoot(d) == SelectSeq([n \in 1..Len(d) |-> d[n][1]], LAMBDA k : k # IndexKey)

\* pages: the keys of data, in iteration order
Pages(d) == [n \in 1..Len(d) |-> d[n][1]]

UrlElement(base, page) == UrlOpen \o base \o <<"/">> \o page \o <<"/">> \o UrlClose

RECURSIVE UrlElements(_, _)
UrlElements(base, pages) ==
  IF pages = <<>> THEN <<>>
  ELSE UrlElement(base, Head(pages)) \o UrlElements(base, Tail(pages))

SitemapContent(d, base) == XmlDecl \o UrlsetOpen \o UrlElements(base, Pages(d)) \o UrlsetClose

\* ------------------------------------------------------------------------
\* Output directory
\* ------------------------------------------------------------------------
DirNode == [type |-> "dir", content |-> <<>>]
FileNode(c) == [type |-> "file", content |-> c]
EmptyTree == [p \in {} |-> DirNode]
Put(t, p, n) == (p :> n) @@ t

IsFile(t, p) == p \in DOMAIN t /\ t[p].type = "file"
IsDir(t, p) == p \in DOMAIN t /\ t[p].type = "dir"

\* ------------------------------------------------------------------------
\* Inputs
\* ------------------------------------------------------------------------
KeyA == <<"a">>
Keys == {IndexKey, KeyA, ErrorPageName}
BaseUrl == <<"h","t","t","p","s",":","/","/","s">>

LinkEntries ==
  { [title |-> <<"T">>],
    [url |-> <<"u">>],
    [url |-> <<"u">>, title |-> <<"T">>, description |-> <<"D">>, image |-> <<"I">>],
    [url |-> TokTitle, title |-> <<"T">>] }

\* a registry: distinct keys in insertion order, each with its definition
Registries ==
  UNION { { d \in [1..n -> Keys \X LinkEntries] :
              \A x, y \in 1..n : x # y => d[x][1] # d[y][1] } : n \in 0..MaxEntries }

ConfigFiles ==
  { [kind |-> "missing", obj |-> <<>>],
    [kind |-> "invalid", obj |-> <<>>],
    [kind |-> "json", obj |-> [other |-> <<"x">>]],
    [kind |-> "json", obj |-> [base_url |-> BaseUrl]] }

JsonFiles ==
  { [kind |-> "missing", obj |-> <<>>], [kind |-> "invalid", obj |-> <<>>] }
  \cup { [kind |-> "json", obj |-> d] : d \in Registries }

TemplateAll == <<"<">> \o TokUrl \o <<">">> \o TokTitle \o TokHeading \o TokDescription \o TokImage
TemplateSplit == <<"{","{"," ","t","i">> \o TokImage \o <<"t","l","e"," ","}","}">>

TemplateFiles ==
  { [kind |-> "missing", text |-> <<>>],
    [kind |-> "text", text |-> TemplateAll],
    [kind |-> "text", text |-> TemplateSplit] }

ErrorPageContent == <<"E">>

StaleTree ==
  Put(Put(Put(EmptyTree, <<KeyA>>, DirNode), <<KeyA, IndexHtml>>, FileNode(<<"o","l","d">>)),
      <<KeyA, <<"x">>>>, FileNode(<<"o","l","d">>))

\* what the output path holds before a run
PriorOutputs ==
  { [kind |-> "absent", tree |-> EmptyTree],
    [kind |-> "file", tree |-> EmptyTree],
    [kind |-> "dir", tree |-> StaleTree] }

\* ------------------------------------------------------------------------
\* State
\* ------------------------------------------------------------------------
VARIABLES
  configFile, jsonFile, templateFile, errorPage,   \* input files
  prior,                                           \* output path before the run
  outKind, tree,                                   \* output path now
  pc, config, base_url, data, template_content, i, \* main()'s position and locals
  log,                                             \* printed lines
  runs, firstTree,                                 \* runs so far, tree of the first completed run
  rKey, rValue, rChunks, text, pass                \* a rendering in progress

inputs == <<configFile, jsonFile, templateFile, errorPage>>
locals == <<config, base_url, data, template_content, i>>
render == <<rKey, rValue, rChunks, text, pass>>
vars == <<configFile, jsonFile, templateFile, errorPage, prior, outKind, tree,
          pc, config, base_url, data, template_content, i, log, runs, firstTree,
          rKey, rValue, rChunks, text, pass>>

NoConfig == [kind |-> "unset", obj |-> <<>>]

Init ==
  /\ configFile \in ConfigFiles
  /\ jsonFile \in JsonFiles
  /\ templateFile \in TemplateFiles
  /\ errorPage \in BOOLEAN
  /\ prior \in PriorOutputs
  /\ outKind = prior.kind
  /\ tree = prior.tree
  /\ pc = "load_config"
  /\ config = NoConfig
  /\ base_url = <<>>
  /\ data = <<>>
  /\ template_content = <<>>
  /\ i = 1
  /\ log = <<>>
  /\ runs = 1
  /\ firstTree = EmptyTree
  /\ rKey = <<>>
  /\ rValue = [url |-> <<>>]
  /\ rChunks = <<>>
  /\ text = <<>>
  /\ pass = 5

\* ------------------------------------------------------------------------
\* Steps of main()
\* ------------------------------------------------------------------------
\* load_config: the parsed object, or '' after a warning
load_config(f) ==
  IF f.kind = "json" THEN [kind |-> "dict", obj |-> f.obj] ELSE [kind |-> "str", obj |-> <<>>]

LoadConfig ==
  /\ pc = "load_config"
  /\ config' = load_config(configFile)
  /\ log' = IF configFile.kind = "missing" THEN Append(log, "config_missing")
            ELSE IF configFile.kind = "invalid" THEN Append(log, "config_invalid")
            ELSE log
  /\ pc' = "get_base_url"
  /\ UNCHANGED <<inputs, prior, outKind, tree, base_url, data, template_content, i,
                 runs, firstTree, render>>

\* config.get('base_url', ''): a str has no .get, the AttributeError is not caught
GetBaseUrl ==
  /\ pc = "get_base_url"
  /\ IF config.kind = "dict"
     THEN /\ base_url' = Get(config.obj, "base_url", <<>>)
          /\ pc' = "reset"
     ELSE /\ base_url' = base_url
          /\ pc' = "crashed"
  /\ UNCHANGED <<inputs, prior, outKind, tree, config, data, template_content, i, log,
                 runs, firstTree, render>>

\* variant: makedirs(exist_ok=True) with no rmtree, what is there stays
ResetOutputKeep ==
  /\ pc = "reset"
  /\ IF outKind = "file"
     THEN /\ pc' = "crashed"
          /\ UNCHANGED <<outKind, tree, log>>
     ELSE /\ outKind' = "dir"
          /\ tree' = tree
          /\ log' = Append(log, "folder_created")
          /\ pc' = "copy_error"
  /\ UNCHANGED <<inputs, prior, locals, runs, firstTree, render>>

\* rmtree of an existing parent folder, then makedirs; rmtree of a plain file raises
ResetOutput ==
  /\ pc = "reset"
  /\ IF outKind = "file"
     THEN /\ pc' = "crashed"
          /\ UNCHANGED <<outKind, tree, log>>
     ELSE /\ outKind' = "dir"
          /\ tree' = EmptyTree
          /\ log' = IF outKind = "dir" THEN log \o <<"folder_removed", "folder_created">>
                    ELSE Append(log, "folder_created")
          /\ pc' = "copy_error"
  /\ UNCHANGED <<inputs, prior, locals, runs, firstTree, render>>

CopyErrorPage ==
  /\ pc = "copy_error"
  /\ IF errorPage
     THEN /\ tree' = Put(tree, <<ErrorPageName>>, FileNode(ErrorPageContent))
          /\ log' = Append(log, "error_page_copied")
     ELSE /\ tree' = tree
          /\ log' = Append(log, "error_page_missing")
  /\ pc' = "read_json"
  /\ UNCHANGED <<inputs, prior, outKind, locals, runs, firstTree, render>>

\* open + json.load; FileNotFoundError and JSONDecodeError are caught at the end of main
ReadJson ==
  /\ pc = "read_json"
  /\ IF jsonFile.kind = "json"
     THEN /\ data' = jsonFile.obj
          /\ log' = Append(log, "contents")
          /\ pc' = "read_template"
     ELSE /\ data' = data
          /\ log' = Append(log, IF jsonFile.kind = "missing" THEN "error_not_found"
                                ELSE "error_invalid_json")
          /\ pc' = "aborted"
  /\ UNCHANGED <<inputs, prior, outKind, tree, config, base_url, template_content, i,
                 runs, firstTree, render>>

ReadTemplate ==
  /\ pc = "read_template"
  /\ IF templateFile.kind = "text"
     THEN /\ template_content' = templateFile.text
          /\ log' = log
          /\ i' = 1
          /\ pc' = IF Len(data) = 0 THEN "sitemap" ELSE "loop"
     ELSE /\ template_content' = template_content
          /\ log' = Append(log, "error_not_found")
          /\ i' = i
          /\ pc' = "aborted"
  /\ UNCHANGED <<inputs, prior, outKind, tree, config, base_url, data, runs, firstTree, render>>

\* where the page of key goes
IndexFilePath(key) == IF key = IndexKey THEN <<IndexHtml>> ELSE <<key, IndexHtml>>

\* open(path, 'w') succeeds iff the directory holding path is a directory and
\* path is not a directory itself
CanWrite(t, p) ==
  /\ ~IsDir(t, p)
  /\ Len(p) > 1 => IsDir(t, SubSeq(p, 1, Len(p) - 1))

\* one iteration of the for loop over data.items()
ProcessEntry ==
  /\ pc = "loop"
  /\ i <= Len(data)
  /\ LET key == data[i][1]
         value == data[i][2]
         folder == <<key>>
         made == IF key # IndexKey /\ folder \notin DOMAIN tree
                 THEN Put(tree, folder, DirNode) ELSE tree
         path == IndexFilePath(key)
         note == IF key = IndexKey THEN <<>>
                 ELSE IF folder \notin DOMAIN tree THEN <<"folder_created">>
                 ELSE <<"folder_exists">>
     IN IF "url" \notin DOMAIN value
        THEN /\ log' = Append(log, "skipping")
             /\ tree' = tree
             /\ i' = i + 1
             /\ pc' = IF i + 1 > Len(data) THEN "sitemap" ELSE "loop"
        ELSE IF CanWrite(made, path)
        THEN /\ tree' = Put(made, path, FileNode(Render(template_content, key, value)))
             /\ log' = log \o note \o <<"file_created">>
             /\ i' = i + 1
             /\ pc' = IF i + 1 > Len(data) THEN "sitemap" ELSE "loop"
        ELSE /\ tree' = made
             /\ log' = log \o note
             /\ i' = i
             /\ pc' = "crashed"
  /\ UNCHANGED <<inputs, prior, outKind, config, base_url, data, template_content,
                 runs, firstTree, render>>

\* generate_sitemap(data, parent_folder, base_url)
GenerateSitemap ==
  /\ pc = "sitemap"
  /\ IF CanWrite(tree, <<SitemapXml>>)
     THEN /\ tree' = Put(tree, <<SitemapXml>>, FileNode(SitemapContent(data, base_url)))
          /\ log' = Append(log, "sitemap_generated")
          /\ firstTree' = IF runs = 1 THEN tree' ELSE firstTree
          /\ pc' = "done"
     ELSE /\ UNCHANGED <<tree, log, firstTree>>
          /\ pc' = "crashed"
  /\ UNCHANGED <<inputs, prior, outKind, locals, runs, render>>

Next ==
  \/ LoadConfig
  \/ GetBaseUrl
  \/ ResetOutput
  \/ CopyErrorPage
  \/ ReadJson
  \/ ReadTemplate
  \/ ProcessEntry
  \/ GenerateSitemap

Spec == Init /\ [][Next]_vars

\* ------------------------------------------------------------------------
\* Running again over the same input files
\* ------------------------------------------------------------------------
\* a later run finds the output path as the last run left it, or absent, or
\* holding files the generator did not write
Rerun ==
  /\ pc = "done"
  /\ runs < MaxRuns
  /\ prior' \in {[kind |-> "dir", tree |-> tree]} \cup {p \in PriorOutputs : p.kind # "file"}
  /\ outKind' = prior'.kind
  /\ tree' = prior'.tree
  /\ runs' = runs + 1
  /\ pc' = "load_config"
  /\ config' = NoConfig
  /\ base_url' = <<>>
  /\ data' = <<>>
  /\ template_content' = <<>>
  /\ i' = 1
  /\ log' = <<>>
  /\ UNCHANGED <<inputs, firstTree, render>>

NextRerun ==
  \/ LoadConfig
  \/ GetBaseUrl
  \/ ResetOutput
  \/ CopyErrorPage
  \/ ReadJson
  \/ ReadTemplate
  \/ ProcessEntry
  \/ GenerateSitemap
  \/ Rerun

SpecRerun == Init /\ [][NextRerun]_vars

\* ------------------------------------------------------------------------
\* The page renderer on its own: the chain of .replace calls, one call a step
\* ------------------------------------------------------------------------
RECURSIVE Flatten(_)
Flatten(ss) == IF ss = <<>> THEN <<>> ELSE Head(ss) \o Flatten(Tail(ss))

TokenSet == {Tokens[k] : k \in 1..5}
Chunks == TokenSet \cup {<<"x">>, <<"{","{"," ">>, <<" ","}","}">>}
Templates == UNION {[1..n -> Chunks] : n \in 0..MaxChunks}

Plain == [url |-> <<"u">>, title |-> <<"t">>, description |-> <<"d">>, image |-> <<"i">>]
Optional == {"title", "description", "image"}
PlainEntries == {[f \in S \cup {"url"} |-> Plain[f]] : S \in SUBSET Optional}
TokenEntries == {[Plain EXCEPT ![f] = Tokens[k]] : f \in DOMAIN Plain, k \in 1..5}
WordEntries == {[Plain EXCEPT !["url"] = <<"t","i","t","l","e">>], [Plain EXCEPT !["image"] = <<>>]}
RenderEntries == PlainEntries \cup TokenEntries \cup WordEntries
RenderKey == <<"k">>

InitRender ==
  /\ configFile = [kind |-> "missing", obj |-> <<>>]
  /\ jsonFile = [kind |-> "missing", obj |-> <<>>]
  /\ templateFile = [kind |-> "missing", text |-> <<>>]
  /\ errorPage = FALSE
  /\ prior = [kind |-> "absent", tree |-> EmptyTree]
  /\ outKind = "absent"
  /\ tree = EmptyTree
  /\ pc = "render"
  /\ config = NoConfig
  /\ base_url = <<>>
  /\ data = <<>>
  /\ template_content = <<>>
  /\ i = 1
  /\ log = <<>>
  /\ runs = 1
  /\ firstTree = EmptyTree
  /\ rKey = RenderKey
  /\ rValue \in RenderEntries
  /\ rChunks \in Templates
  /\ text = Flatten(rChunks)
  /\ pass = 0

ApplyPass ==
  /\ pc = "render"
  /\ pass < 5
  /\ text' = RenderPass(text, pass + 1, rKey, rValue)
  /\ pass' = pass + 1
  /\ UNCHANGED <<inputs, prior, outKind, tree, pc, locals, log, runs, firstTree,
                 rKey, rValue, rChunks>>

NextRender == ApplyPass

SpecRender == InitRender /\ [][NextRender]_vars

\* ------------------------------------------------------------------------
\* Vocabulary of the properties
\* ------------------------------------------------------------------------
Terminal == {"done", "aborted", "crashed"}

\* s holds the text of one of the five placeholder tokens
HasToken(s) == \E k \in 1..5, j \in 1..Len(s) : IsPrefix(Tokens[k], SubSeq(s, j, Len(s)))

BraceFree(s) == \A j \in 1..Len(s) : s[j] \notin {"{", "}"}

\* the template text outside its placeholder tokens has no brace
TemplateClean(t) ==
  BraceFree(Replace(Replace(Replace(Replace(Replace(t, TokTitle, <<"#">>), TokHeading, <<"#">>),
                                    TokUrl, <<"#">>), TokDescription, <<"#">>), TokImage, <<"#">>))

\* the field values of an entry, the key standing in where it is a default
ValuesBraceFree(key, value) == BraceFree(key) /\ \A f \in DOMAIN value : BraceFree(value[f])

HasUrl(n) == "url" \in DOMAIN data[n][2]

\* the paths of the rendered pages in the tree
RenderedPages == {p \in DOMAIN tree : tree[p].type = "file" /\ p[Len(p)] = IndexHtml}

LocOpen == <<"<","l","o","c",">">>
LocClose == <<"<","/","l","o","c",">">>

\* p occurs in s at position j
OccursAt(s, j, p) == j + Len(p) - 1 <= Len(s) /\ SubSeq(s, j, j + Len(p) - 1) = p

\* the positions of the <loc> tags of s
LocStarts(s) == {j \in 1..Len(s) : OccursAt(s, j, LocOpen)}

\* the text between the <loc> at j and the next </loc>
LocAt(s, j) ==
  LET from == j + Len(LocOpen)
      ends == {e \in from..Len(s) : OccursAt(s, e, LocClose)}
      to == IF ends = {} THEN Len(s) + 1 ELSE CHOOSE e \in ends : \A f \in ends : e <= f
  IN SubSeq(s, from, to - 1)

\* the <loc> values of a sitemap text, in document order
Locs(s) ==
  LET starts == LocStarts(s)
      nth(n) == CHOOSE j \in starts : Cardinality({h \in starts : h < j}) = n - 1
  IN [n \in 1..Cardinality(starts) |-> LocAt(s, nth(n))]

SitemapLocs == IF IsFile(tree, <<SitemapXml>>) THEN Locs(tree[<<SitemapXml>>].content) ELSE <<>>

\* entry n lacked a url and the loop has gone past it
Skipped(n) ==
  /\ pc \in {"loop", "sitemap", "done", "crashed"}
  /\ n \in 1..Len(data)
  /\ n < i
  /\ ~HasUrl(n)

\* the entry being processed has a key whose folder path is the copied error page
Collision ==
  /\ data # <<>>
  /\ i <= Len(data)
  /\ HasUrl(i)
  /\ data[i][1] # IndexKey
  /\ IsFile(tree, <<data[i][1]>>)

\* ------------------------------------------------------------------------
\* C1
\* ------------------------------------------------------------------------
\* C1: with a config file that is missing or not valid JSON no exception
\* propagates: the run goes on with base_url = "", and a run that completes
\* has a sitemap whose locations are /{key}/.
C1_ConfigDegrades ==
  configFile.kind \in {"missing", "invalid"} =>
    /\ pc # "crashed"
    /\ pc \notin {"load_config", "get_base_url"} => base_url = <<>>
    /\ pc = "done" =>
         SitemapLocs = [n \in 1..Len(data) |-> <<"/">> \o data[n][1] \o <<"/">>]

\* ------------------------------------------------------------------------
\* C2
\* ------------------------------------------------------------------------
PageAtPath(n) ==
  /\ IsFile(tree, IndexFilePath(data[n][1]))
  /\ data[n][1] = IndexKey => <<IndexKey>> \notin DOMAIN tree
  /\ data[n][1] # IndexKey => IsDir(tree, <<data[n][1]>>)

PageText(n) == tree[IndexFilePath(data[n][1])].content

\* C2 as stated: after a completed run every entry with a url has its page at
\* the root (key index) or under its key, and the page holds no placeholder
\* token whatever the field values are.
C2_NoTokenAnyValues ==
  pc = "done" =>
    \A n \in 1..Len(data) : HasUrl(n) => PageAtPath(n) /\ ~HasToken(PageText(n))

\* C2 amended: after a completed run every entry with a url has its page at
\* the root (key index, no folder) or under its key; the page holds no
\* placeholder token when neither the entry's values (the key where it is a
\* default) nor the template outside its tokens contain a brace.
C2_PagesRendered ==
  pc = "done" =>
    \A n \in 1..Len(data) :
      HasUrl(n) =>
        /\ PageAtPath(n)
        /\ (ValuesBraceFree(data[n][1], data[n][2]) /\ TemplateClean(template_content))
             => ~HasToken(PageText(n))

C2_Witness ==
  /\ pc = "done"
  /\ Len(data) = 2
  /\ data[1][1] = KeyA /\ data[2][1] = IndexKey
  /\ HasUrl(1) /\ HasUrl(2)
  /\ template_content = TemplateAll
  /\ ValuesBraceFree(data[1][1], data[1][2])
  /\ IsFile(tree, <<KeyA, IndexHtml>>) /\ IsFile(tree, <<IndexHtml>>)

\* ------------------------------------------------------------------------
\* C3
\* ------------------------------------------------------------------------
\* C3: once an entry without a url has been skipped, nothing exists for its
\* key, the run does not abort, and the run ends with every entry that has a
\* url rendered and the sitemap written.
C3_SkipKeepsRunGoing ==
  \A n \in 1..Len(data) :
    Skipped(n) =>
      /\ IndexFilePath(data[n][1]) \notin DOMAIN tree
      /\ ~IsDir(tree, <<data[n][1]>>)
      /\ pc \notin {"aborted", "crashed"}
      /\ pc = "done" =>
           /\ IsFile(tree, <<SitemapXml>>)
           /\ \A m \in 1..Len(data) : HasUrl(m) => IsFile(tree, IndexFilePath(data[m][1]))

\* ------------------------------------------------------------------------
\* C4
\* ------------------------------------------------------------------------
\* C4: after a completed run the sitemap has as many entries as pages were
\* rendered, an entry without a url has no sitemap entry, and every <loc> is
\* {base_url}/{key}/ for a key of the registry.
C4_SitemapCountsPages ==
  pc = "done" =>
    /\ Len(SitemapLocs) = Cardinality(RenderedPages)
    /\ \A n \in 1..Len(data) :
         ~HasUrl(n) =>
           \A j \in 1..Len(SitemapLocs) : SitemapLocs[j] # base_url \o <<"/">> \o data[n][1] \o <<"/">>
    /\ \A j \in 1..Len(SitemapLocs) :
         \E n \in 1..Len(data) : SitemapLocs[j] = base_url \o <<"/">> \o data[n][1] \o <<"/">>

\* ------------------------------------------------------------------------
\* C5
\* ------------------------------------------------------------------------
\* C5: every completed run over the same input files ends with the same
\* output tree, whatever the output path held before the run, and nothing
\* that was there before is left.
C5_FullRebuild ==
  pc = "done" =>
    /\ tree = firstTree
    /\ \A p \in DOMAIN tree :
         \/ p \in {<<ErrorPageName>>, <<SitemapXml>>}
         \/ \E n \in 1..Len(data) : HasUrl(n) /\ p \in {<<data[n][1]>>, IndexFilePath(data[n][1])}
    /\ \A p \in DOMAIN tree : tree[p].content # <<"o","l","d">>

C5_Witness ==
  /\ pc = "done"
  /\ runs = 2
  /\ prior.kind = "dir"
  /\ prior.tree = StaleTree
  /\ \E n \in 1..Len(data) : HasUrl(n) /\ data[n][1] = KeyA

\* ------------------------------------------------------------------------
\* C6
\* ------------------------------------------------------------------------
\* C6: a run whose registry file is missing or invalid, or whose template is
\* missing, prints a diagnostic and ends without an uncaught exception and
\* with no rendered page and no sitemap; a missing config, a missing error
\* page or an entry without a url never ends a run.
C6_OnlyFatalInputsEnd ==
  /\ (pc \in Terminal /\ prior.kind # "file"
      /\ (jsonFile.kind # "json" \/ templateFile.kind # "text")) =>
       /\ pc = "aborted"
       /\ \E j \in 1..Len(log) : log[j] \in {"error_not_found", "error_invalid_json"}
       /\ RenderedPages = {}
       /\ <<SitemapXml>> \notin DOMAIN tree
  /\ (pc \in {"aborted", "crashed"} /\ prior.kind # "file" /\ ~Collision) =>
       (jsonFile.kind # "json" \/ templateFile.kind # "text")

\* ------------------------------------------------------------------------
\* C7
\* ------------------------------------------------------------------------
\* C7 as stated: when the registry file is missing, the output path is at
\* the abort exactly what it was before the run.
C7_NoMutationBeforeAbort ==
  (jsonFile.kind = "missing" /\ pc = "aborted") => (outKind = prior.kind /\ tree = prior.tree)

\* C7 amended: when the registry file is missing, the run aborts after the
\* output directory was reset: at the abort it exists and holds the copied
\* error page if there is one, and nothing else, whatever it held before.
C7_AbortAfterReset ==
  (jsonFile.kind = "missing" /\ pc = "aborted") =>
    /\ outKind = "dir"
    /\ DOMAIN tree \subseteq {<<ErrorPageName>>}
    /\ errorPage <=> IsFile(tree, <<ErrorPageName>>)

C7_Witness ==
  /\ jsonFile.kind = "missing"
  /\ pc = "aborted"
  /\ prior.kind = "dir"
  /\ prior.tree = StaleTree
  /\ errorPage

\* ------------------------------------------------------------------------
\* C8
\* ------------------------------------------------------------------------
\* C8: an entry whose folder path is taken by the copied error page is logged
\* and passed over: the run does not stop at it.
C8_CollisionContinues ==
  Collision => pc # "crashed"

\* ------------------------------------------------------------------------
\* C9
\* ------------------------------------------------------------------------
\* C9: the sitemap of a completed run has exactly one <loc> per key of the
\* registry, {base_url}/{key}/, the key index included, in registry order.
C9_SitemapPerKey ==
  pc = "done" =>
    /\ Len(SitemapLocs) = Len(data)
    /\ \A n \in 1..Len(data) : SitemapLocs[n] = base_url \o <<"/">> \o data[n][1] \o <<"/">>

C9_Witness ==
  /\ pc = "done"
  /\ Len(data) = 2
  /\ data[1][1] = KeyA /\ data[2][1] = IndexKey
  /\ base_url = BaseUrl
  /\ Len(SitemapLocs) = 2

\* ------------------------------------------------------------------------
\* C10
\* ------------------------------------------------------------------------
\* what the claim says each token shows: title and heading the title, title
\* and description defaulting to the key, image to the empty string
Shown(k) ==
  IF k \in {1, 2} THEN (IF "title" \in DOMAIN rValue THEN rValue.title ELSE rKey)
  ELSE IF k = 3 THEN rValue.url
  ELSE IF k = 4 THEN (IF "description" \in DOMAIN rValue THEN rValue.description ELSE rKey)
  ELSE (IF "image" \in DOMAIN rValue THEN rValue.image ELSE <<>>)

TokenIndex(c) == CHOOSE k \in 1..5 : Tokens[k] = c

\* C10: after the five passes (title, heading, url, description, image)
\*  - a template of tokens and brace-free text, with brace-free values, has
\*    each token replaced by what it shows;
\*  - a template that is one token whose value is the text of a token ends
\*    as what that second token shows if its pass is later, and as the
\*    second token itself otherwise.
C10_FixedOrderPasses ==
  pass = 5 =>
    /\ ((\A f \in DOMAIN rValue : BraceFree(rValue[f]))
        /\ (\A n \in 1..Len(rChunks) : rChunks[n] \in TokenSet \/ BraceFree(rChunks[n])))
         => text = Flatten([n \in 1..Len(rChunks) |->
                              IF rChunks[n] \in TokenSet THEN Shown(TokenIndex(rChunks[n]))
                              ELSE rChunks[n]])
    /\ \A x, y \in 1..5 :
         (rChunks = <<Tokens[x]>> /\ Shown(x) = Tokens[y]
          /\ \A z \in 1..5 : Shown(z) \in TokenSet => Shown(z) = Tokens[y])
           => text = IF y > x THEN Shown(y) ELSE Tokens[y]

C10_Witness ==
  /\ pass = 5
  /\ rChunks = <<TokTitle>>
  /\ "title" \in DOMAIN rValue
  /\ rValue.title = TokUrl
  /\ text = <<"u">>

====
